---- MODULE Spec2Model ----
(***************************************************************************)
(* A model of the debug build of debug-log (src/src/lib.rs, mod debug      *)
(* under cfg(debug_assertions), native target: the eprintln! backend).     *)
(*                                                                         *)
(* Strings are sequences of one-character strings, so that substring       *)
(* containment, splitting on '\n', repetition of the indent unit and the   *)
(* text written to the error stream are computed as the code computes      *)
(* them.  Every access to one of the two mutexes (DEBUG, LEVELS) is two    *)
(* steps of a thread: the acquisition, and the access together with the    *)
(* release at the end of the statement that holds the guard.               *)
(***************************************************************************)
EXTENDS Integers, Sequences, FiniteSets, TLC

(***************************************************************************)
(* Bounds of the model.                                                    *)
(***************************************************************************)
\* operations started in a behaviour of Spec (one thread, all inputs)
MaxOps == 4
\* operations started in a behaviour of SpecStar (one thread, filter "*")
MaxOpsStar == 5
\* operations started in a behaviour of SpecMT (two threads)
MaxOpsMT == 4

\* operations started in a behaviour of SpecRaw (one thread, outdent called directly)
MaxOpsRaw == 3

\* operations started in a behaviour of SpecRelease (the build without
\* debug assertions)
MaxOpsRelease == 3

\* operations started in a behaviour of SpecDump (two threads, multi-line dumps)
MaxOpsDump == 2

\* operations started in a behaviour of SpecFair (two threads, fair scheduling)
MaxOpsFair == 3

Threads == {1, 2}
\* the one thread of the single-threaded specifications
Main == {1}

(***************************************************************************)
(* Text.                                                                   *)
(***************************************************************************)
NL == "\n"
IndentUnit == <<" ", " ", " ", " ">>
Star == <<"*">>
Mod1 == <<"m", "o", "d", "1">>
File1 == <<"m", "o", "d", "1", "/", "f", "i", "l", "e", ".", "e", "x", "t">>
File2 == <<"m", "o", "d", "2", "/", "f", "i", "l", "e", ".", "e", "x", "t">>
\* file!() of a macro invoked inside the crate's own functions
LibFile == <<"s", "r", "c", "/", "l", "i", "b", ".", "r", "s">>

Site1 == [file |-> File1, line |-> 10]
Site2 == [file |-> File2, line |-> 20]

Digits == <<"0", "1", "2", "3", "4", "5", "6", "7", "8", "9">>

\* "{}" of an unsigned integer
RECURSIVE Dec(_)
Dec(n) == IF n < 10 THEN <<Digits[n + 1]>>
          ELSE Dec(n \div 10) \o <<Digits[(n % 10) + 1]>>

\* format!("{}:{}", file!(), line!())
LineTag(site) == site.file \o <<":">> \o Dec(site.line)

\* str::repeat
RECURSIVE Repeat(_, _)
Repeat(s, n) == IF n = 0 THEN <<>> ELSE s \o Repeat(s, n - 1)

\* str::contains with a string pattern
Contains(hay, needle) ==
    \E k \in 0 .. (Len(hay) - Len(needle)) :
        SubSeq(hay, k + 1, k + Len(needle)) = needle

\* s.split('\n'), collected: the pieces between the separators
RECURSIVE Split(_)
Split(s) ==
    IF \A k \in 1 .. Len(s) : s[k] # NL THEN <<s>>
    ELSE LET k == CHOOSE j \in 1 .. Len(s) :
                      s[j] = NL /\ \A h \in 1 .. (j - 1) : s[h] # NL
         IN  <<SubSeq(s, 1, k - 1)>> \o Split(SubSeq(s, k + 1, Len(s)))

\* format!("{:#?}", value) of an integer or of a Vec of integers
RECURSIVE PrettyItems(_)
PrettyItems(v) ==
    IF v = <<>> THEN <<>>
    ELSE IndentUnit \o Dec(Head(v)) \o <<",", NL>> \o PrettyItems(Tail(v))

PrettyDebug(value) ==
    IF value.kind = "int" THEN Dec(value.v[1])
    ELSE IF value.v = <<>> THEN <<"[", "]">>
    ELSE <<"[", NL>> \o PrettyItems(value.v) \o <<"]">>

IntValue(n) == [kind |-> "int", v |-> <<n>>]
VecValue(v) == [kind |-> "vec", v |-> v]

\* Option<T>
None == <<>>
Some(x) == <<x>>

(***************************************************************************)
(* State.                                                                  *)
(***************************************************************************)
VARIABLES
    DEBUG,        \* static DEBUG: the Option<String> inside the mutex
    LEVELS,       \* static LEVELS: the Vec<String> inside the mutex
    lockDEBUG,    \* the thread holding the DEBUG mutex, 0 when free
    lockLEVELS,   \* the thread holding the LEVELS mutex, 0 when free
    stderr,       \* the characters written to the error stream
    pc,           \* each thread's position
    rets,         \* each thread's stack of return positions
    loc,          \* each thread's local variables
    scopes,       \* each thread's open scopes: the Option<GroupGuard> of each
    labels,       \* history: the label group! was given in each open scope
    cur,          \* history: each thread's latest operation and the state it started in
    nops,         \* history: operations started
    pushes,       \* history: completed Vec::push on LEVELS
    pops,         \* history: completed Vec::pop on LEVELS
    emptyPops     \* history: Vec::pop executed on an empty LEVELS

vars == <<DEBUG, LEVELS, lockDEBUG, lockLEVELS, stderr, pc, rets, loc, scopes,
          labels, cur, nops, pushes, pops, emptyPops>>

Loc0 == [line |-> <<>>, arg |-> <<>>, res |-> FALSE, lvl |-> 0, name |-> <<>>,
         file |-> <<>>, s |-> <<>>, parts |-> <<>>, i |-> 0, prefix |-> <<>>,
         ans |-> <<>>, text |-> <<>>]

Cur0 == [kind |-> "none", tag |-> <<>>, file |-> <<>>, name |-> <<>>, guard |-> FALSE,
         out0 |-> 0, levels0 |-> <<>>, debug0 |-> None, pops0 |-> 0]

InitWith(filters) ==
    /\ DEBUG \in filters
    /\ LEVELS = <<>>
    /\ lockDEBUG = 0
    /\ lockLEVELS = 0
    /\ stderr = <<>>
    /\ pc = [t \in Threads |-> "idle"]
    /\ rets = [t \in Threads |-> <<>>]
    /\ loc = [t \in Threads |-> Loc0]
    /\ scopes = [t \in Threads |-> <<>>]
    /\ labels = [t \in Threads |-> <<>>]
    /\ cur = [t \in Threads |-> Cur0]
    /\ nops = 0
    /\ pushes = 0
    /\ pops = 0
    /\ emptyPops = 0

(***************************************************************************)
(* Control: calls, returns and the start of an operation.                  *)
(***************************************************************************)
counts == <<pushes, pops, emptyPops>>

Jump(t, target, newloc) ==
    /\ pc' = [pc EXCEPT ![t] = target]
    /\ loc' = [loc EXCEPT ![t] = newloc]
    /\ UNCHANGED rets

Call(t, target, back, newloc) ==
    /\ pc' = [pc EXCEPT ![t] = target]
    /\ rets' = [rets EXCEPT ![t] = <<back>> \o @]
    /\ loc' = [loc EXCEPT ![t] = newloc]

\* the locals of an operation die with it
Return(t, newloc) ==
    /\ pc' = [pc EXCEPT ![t] = Head(rets[t])]
    /\ rets' = [rets EXCEPT ![t] = Tail(@)]
    /\ loc' = [loc EXCEPT ![t] = IF Head(rets[t]) = "idle" THEN Loc0 ELSE newloc]

Begin(t, kind, tag, file, name, guard) ==
    /\ cur' = [cur EXCEPT ![t] = [kind |-> kind, tag |-> tag, file |-> file,
                                  name |-> name, guard |-> guard,
                                  out0 |-> Len(stderr), levels0 |-> LEVELS,
                                  debug0 |-> DEBUG, pops0 |-> pops]]
    /\ nops' = nops + 1

(***************************************************************************)
(* The filter.                                                             *)
(***************************************************************************)
\* the wildcard is not recognised
ShouldLogNoStar(d, file) ==
    IF d = None THEN FALSE ELSE d[1] # <<>> /\ Contains(file, d[1])

\* map_or(true, ..)
ShouldLogAbsentTrue(d, file) ==
    IF d = None THEN TRUE ELSE d[1] # <<>> /\ (d[1] = Star \/ Contains(file, d[1]))

\* lock.as_ref().map_or(false, |x| !x.is_empty() && (x == "*" || file.contains(x)))
ShouldLog(d, file) ==
    IF d = None THEN FALSE
    ELSE LET x == d[1]
         IN  x # <<>> /\ (x = Star \/ Contains(file, x))

\* pub fn should_log(file: &str) -> bool, called with loc.arg
should_log(t) ==
    /\ pc[t] \in {"sl_lock", "sl_eval"}
    /\ IF pc[t] = "sl_lock"
       THEN /\ lockDEBUG = 0
            /\ lockDEBUG' = t
            /\ Jump(t, "sl_eval", loc[t])
       ELSE /\ lockDEBUG' = 0
            /\ Return(t, [loc[t] EXCEPT !.res = ShouldLog(DEBUG, loc[t].arg)])
    /\ UNCHANGED <<DEBUG, LEVELS, lockLEVELS, stderr, scopes, labels, cur, nops, counts>>

\* storing the filter also clears the nesting stack
set_debugResetting(t) ==
    /\ pc[t] \in {"sd_lock", "sd_store"}
    /\ IF pc[t] = "sd_lock"
       THEN /\ lockDEBUG = 0
            /\ lockDEBUG' = t
            /\ UNCHANGED <<DEBUG, LEVELS>>
            /\ Jump(t, "sd_store", loc[t])
       ELSE /\ DEBUG' = Some(loc[t].name)
            /\ LEVELS' = <<>>
            /\ lockDEBUG' = 0
            /\ Return(t, loc[t])
    /\ UNCHANGED <<lockLEVELS, stderr, scopes, labels, cur, nops, counts>>

\* pub fn set_debug(s: &str), called with loc.name
set_debug(t) ==
    /\ pc[t] \in {"sd_lock", "sd_store"}
    /\ IF pc[t] = "sd_lock"
       THEN /\ lockDEBUG = 0
            /\ lockDEBUG' = t
            /\ UNCHANGED DEBUG
            /\ Jump(t, "sd_store", loc[t])
       ELSE /\ DEBUG' = Some(loc[t].name)
            /\ lockDEBUG' = 0
            /\ Return(t, loc[t])
    /\ UNCHANGED <<LEVELS, lockLEVELS, stderr, scopes, labels, cur, nops, counts>>

(***************************************************************************)
(* The nesting stack.                                                      *)
(***************************************************************************)
\* the guard of LEVELS outlives the call
get_levelHolding(t) ==
    /\ pc[t] \in {"gl_lock", "gl_len"}
    /\ IF pc[t] = "gl_lock"
       THEN /\ lockLEVELS = 0
            /\ lockLEVELS' = t
            /\ Jump(t, "gl_len", loc[t])
       ELSE /\ lockLEVELS' = lockLEVELS
            /\ Return(t, [loc[t] EXCEPT !.lvl = Len(LEVELS)])
    /\ UNCHANGED <<DEBUG, LEVELS, lockDEBUG, stderr, scopes, labels, cur, nops, counts>>

\* pub fn get_level() -> usize
get_level(t) ==
    /\ pc[t] \in {"gl_lock", "gl_len"}
    /\ IF pc[t] = "gl_lock"
       THEN /\ lockLEVELS = 0
            /\ lockLEVELS' = t
            /\ Jump(t, "gl_len", loc[t])
       ELSE /\ lockLEVELS' = 0
            /\ Return(t, [loc[t] EXCEPT !.lvl = Len(LEVELS)])
    /\ UNCHANGED <<DEBUG, LEVELS, lockDEBUG, stderr, scopes, labels, cur, nops, counts>>

\* inner_println!(..) expanded inside a function of the crate: the text is
\* loc.text and file!() is the crate's own file
inner_println(t) ==
    /\ pc[t] \in {"ip", "ip_check"}
    /\ IF pc[t] = "ip"
       THEN /\ Call(t, "sl_lock", "ip_check", [loc[t] EXCEPT !.arg = LibFile])
            /\ UNCHANGED stderr
       ELSE /\ stderr' = IF loc[t].res THEN stderr \o loc[t].text \o <<NL>>
                         ELSE stderr
            /\ Return(t, loc[t])
    /\ UNCHANGED <<DEBUG, LEVELS, lockDEBUG, lockLEVELS, scopes, labels, cur, nops, counts>>

VecPushNothing(v, x) == v

\* the element is put in front
VecPushFront(v, x) == <<x>> \o v

\* Vec::push
VecPush(v, x) == Append(v, x)

\* pub fn indent(name: &str), called with loc.name
indent(t) ==
    /\ pc[t] \in {"indent", "in_space", "in_push_lock", "in_push"}
    /\ CASE pc[t] = "indent" ->
              /\ Call(t, "gl_lock", "in_space", loc[t])
              /\ UNCHANGED <<LEVELS, lockLEVELS, pushes>>
         [] pc[t] = "in_space" ->
              /\ Call(t, "ip", "in_push_lock",
                      [loc[t] EXCEPT !.text = Repeat(IndentUnit, loc[t].lvl)
                                              \o loc[t].name \o <<" ", "{">>])
              /\ UNCHANGED <<LEVELS, lockLEVELS, pushes>>
         [] pc[t] = "in_push_lock" ->
              /\ lockLEVELS = 0
              /\ lockLEVELS' = t
              /\ Jump(t, "in_push", loc[t])
              /\ UNCHANGED <<LEVELS, pushes>>
         [] pc[t] = "in_push" ->
              /\ LEVELS' = VecPush(LEVELS, loc[t].name)
              /\ pushes' = pushes + 1
              /\ lockLEVELS' = 0
              /\ Return(t, loc[t])
    /\ UNCHANGED <<DEBUG, lockDEBUG, stderr, scopes, labels, cur, nops, pops, emptyPops>>

VecPopNothing(v) == v

VecPopTwo(v) == IF Len(v) <= 2 THEN <<>> ELSE SubSeq(v, 1, Len(v) - 2)

\* Vec::pop: removes the last element, or does nothing on an empty vector
VecPop(v) == IF v = <<>> THEN v ELSE SubSeq(v, 1, Len(v) - 1)

\* pub fn outdent()
outdent(t) ==
    /\ pc[t] \in {"outdent", "out_pop", "out_space"}
    /\ CASE pc[t] = "outdent" ->
              /\ lockLEVELS = 0
              /\ lockLEVELS' = t
              /\ Jump(t, "out_pop", loc[t])
              /\ UNCHANGED <<LEVELS, pops, emptyPops>>
         [] pc[t] = "out_pop" ->
              /\ LEVELS' = VecPop(LEVELS)
              /\ pops' = pops + 1
              /\ emptyPops' = IF LEVELS = <<>> THEN emptyPops + 1 ELSE emptyPops
              /\ lockLEVELS' = 0
              /\ Call(t, "gl_lock", "out_space", loc[t])
         [] pc[t] = "out_space" ->
              /\ Jump(t, "ip", [loc[t] EXCEPT !.text = Repeat(IndentUnit, loc[t].lvl)
                                                       \o <<"}">>])
              /\ UNCHANGED <<LEVELS, lockLEVELS, pops, emptyPops>>
    /\ UNCHANGED <<DEBUG, lockDEBUG, stderr, scopes, labels, cur, nops, pushes>>

(***************************************************************************)
(* Groups.                                                                 *)
(***************************************************************************)
\* macro_rules! group, after should_log(&line) has returned: the guard bound in
\* the caller's scope is Some(GroupGuard) (TRUE) or None (FALSE)
group(t) ==
    /\ pc[t] \in {"g_check", "g_some"}
    /\ CASE pc[t] = "g_check" ->
              IF loc[t].res
              THEN /\ Call(t, "indent", "g_some", loc[t])
                   /\ UNCHANGED <<scopes, labels>>
              ELSE /\ scopes' = [scopes EXCEPT ![t] = Append(@, FALSE)]
                   /\ labels' = [labels EXCEPT ![t] = Append(@, loc[t].name)]
                   /\ Return(t, loc[t])
         [] pc[t] = "g_some" ->
              /\ scopes' = [scopes EXCEPT ![t] = Append(@, TRUE)]
              /\ labels' = [labels EXCEPT ![t] = Append(@, loc[t].name)]
              /\ Return(t, loc[t])
    /\ UNCHANGED <<DEBUG, LEVELS, lockDEBUG, lockLEVELS, stderr, cur, nops, counts>>

(***************************************************************************)
(* Messages and value dumps.                                               *)
(***************************************************************************)
\* pub fn prepend_indent(s: String) -> String, called with loc.s; the result
\* is loc.ans
prepend_indent(t) ==
    /\ pc[t] \in {"prepend_indent", "pi_loop", "pi_line"}
    /\ CASE pc[t] = "prepend_indent" ->
              Jump(t, "pi_loop", [loc[t] EXCEPT !.ans = <<>>, !.i = 0,
                                                !.parts = Split(loc[t].s)])
         [] pc[t] = "pi_loop" ->
              IF loc[t].i >= Len(loc[t].parts) THEN Return(t, loc[t])
              ELSE IF loc[t].i # 0 THEN Call(t, "gl_lock", "pi_line", loc[t])
              ELSE Jump(t, "pi_loop",
                        [loc[t] EXCEPT !.ans = @ \o loc[t].parts[1] \o <<NL>>,
                                       !.i = 1])
         [] pc[t] = "pi_line" ->
              Jump(t, "pi_loop",
                   [loc[t] EXCEPT !.ans = @ \o Repeat(IndentUnit, loc[t].lvl)
                                            \o loc[t].parts[loc[t].i + 1] \o <<NL>>,
                                  !.i = @ + 1])
    /\ UNCHANGED <<DEBUG, LEVELS, lockDEBUG, lockLEVELS, stderr, scopes, labels, cur, nops,
                   counts>>

\* macro_rules! debug_log, after should_log(&line) has returned; the message
\* is loc.s and file!() is loc.file
debug_log(t) ==
    /\ pc[t] \in {"dl_check", "dl_prefix", "dl_ip", "dl_write"}
    /\ CASE pc[t] = "dl_check" ->
              /\ IF loc[t].res THEN Call(t, "gl_lock", "dl_prefix", loc[t])
                 ELSE Return(t, loc[t])
              /\ UNCHANGED stderr
         [] pc[t] = "dl_prefix" ->
              /\ Call(t, "sl_lock", "dl_ip",
                      [loc[t] EXCEPT !.prefix = Repeat(IndentUnit, loc[t].lvl) \o <<"[">>
                                                \o loc[t].line \o <<"]", " ">>,
                                     !.arg = loc[t].file])
              /\ UNCHANGED stderr
         [] pc[t] = "dl_ip" ->
              /\ IF loc[t].res THEN Call(t, "prepend_indent", "dl_write", loc[t])
                 ELSE Return(t, loc[t])
              /\ UNCHANGED stderr
         [] pc[t] = "dl_write" ->
              /\ stderr' = stderr \o loc[t].prefix \o loc[t].ans \o <<NL>>
              /\ Return(t, loc[t])
    /\ UNCHANGED <<DEBUG, LEVELS, lockDEBUG, lockLEVELS, scopes, labels, cur, nops, counts>>

TrimNewlineNothing(ans) == ans

\* the trailing '\n' of ans is drained
TrimNewline(ans) ==
    IF ans # <<>> /\ ans[Len(ans)] = NL THEN SubSeq(ans, 1, Len(ans) - 1) ELSE ans

\* pub fn dbg(value, name, line), called with loc.s = format!("{:#?}", value),
\* loc.name and loc.line
dbg(t) ==
    /\ pc[t] \in {"dbg", "dbg_prefix", "dbg_loop", "dbg_line"}
    /\ CASE pc[t] = "dbg" ->
              Call(t, "gl_lock", "dbg_prefix", loc[t])
         [] pc[t] = "dbg_prefix" ->
              Jump(t, "dbg_loop",
                   [loc[t] EXCEPT !.ans = Repeat(IndentUnit, loc[t].lvl) \o <<"[">>
                                          \o loc[t].line \o <<"]", " ">>
                                          \o loc[t].name \o <<" ", "=", " ">>,
                                  !.i = 0,
                                  !.parts = Split(loc[t].s)])
         [] pc[t] = "dbg_loop" ->
              IF loc[t].i >= Len(loc[t].parts)
              THEN Jump(t, "ip", [loc[t] EXCEPT !.text = TrimNewline(loc[t].ans)])
              ELSE IF loc[t].i # 0 THEN Call(t, "gl_lock", "dbg_line", loc[t])
              ELSE Jump(t, "dbg_loop",
                        [loc[t] EXCEPT !.ans = @ \o loc[t].parts[1] \o <<NL>>,
                                       !.i = 1])
         [] pc[t] = "dbg_line" ->
              Jump(t, "dbg_loop",
                   [loc[t] EXCEPT !.ans = @ \o Repeat(IndentUnit, loc[t].lvl)
                                            \o loc[t].parts[loc[t].i + 1] \o <<NL>>,
                                  !.i = @ + 1])
    /\ UNCHANGED <<DEBUG, LEVELS, lockDEBUG, lockLEVELS, stderr, scopes, labels, cur, nops,
                   counts>>

\* macro_rules! debug_dbg, after should_log(&line) has returned
debug_dbg(t) ==
    /\ pc[t] = "dd_check"
    /\ IF loc[t].res THEN Jump(t, "dbg", loc[t]) ELSE Return(t, loc[t])
    /\ UNCHANGED <<DEBUG, LEVELS, lockDEBUG, lockLEVELS, stderr, scopes, labels, cur, nops,
                   counts>>

(***************************************************************************)
(* The operations a thread of the host program starts.                     *)
(***************************************************************************)
\* set_debug(s)
CallSetDebug(t, s) ==
    /\ pc[t] = "idle"
    /\ Begin(t, "set_debug", <<>>, <<>>, s, FALSE)
    /\ Call(t, "sd_lock", "idle", [loc[t] EXCEPT !.name = s])
    /\ UNCHANGED <<DEBUG, LEVELS, lockDEBUG, lockLEVELS, stderr, scopes, labels, counts>>

\* group!("<label>") at a call site: a scope is entered
CallGroup(t, site, label) ==
    /\ pc[t] = "idle"
    /\ Begin(t, "group", LineTag(site), site.file, label, FALSE)
    /\ pc' = [pc EXCEPT ![t] = "sl_lock"]
    /\ rets' = [rets EXCEPT ![t] = <<"g_check", "idle">>]
    /\ loc' = [loc EXCEPT ![t] = [@ EXCEPT !.line = LineTag(site), !.file = site.file,
                                          !.name = label, !.arg = LineTag(site)]]
    /\ UNCHANGED <<DEBUG, LEVELS, lockDEBUG, lockLEVELS, stderr, scopes, labels, counts>>

\* the innermost open scope is left (fallthrough, early return or unwinding):
\* its Option<GroupGuard> is dropped, and GroupGuard::drop calls outdent
ExitScope(t) ==
    /\ pc[t] = "idle"
    /\ scopes[t] # <<>>
    /\ Begin(t, "exit", <<>>, <<>>, labels[t][Len(labels[t])], scopes[t][Len(scopes[t])])
    /\ scopes' = [scopes EXCEPT ![t] = SubSeq(@, 1, Len(@) - 1)]
    /\ labels' = [labels EXCEPT ![t] = SubSeq(@, 1, Len(@) - 1)]
    /\ IF scopes[t][Len(scopes[t])]
       THEN Call(t, "outdent", "idle", loc[t])
       ELSE UNCHANGED <<pc, rets, loc>>
    /\ UNCHANGED <<DEBUG, LEVELS, lockDEBUG, lockLEVELS, stderr, counts>>

\* debug_log!("<msg>") at a call site
CallDebugLog(t, site, msg) ==
    /\ pc[t] = "idle"
    /\ Begin(t, "debug_log", LineTag(site), site.file, msg, FALSE)
    /\ pc' = [pc EXCEPT ![t] = "sl_lock"]
    /\ rets' = [rets EXCEPT ![t] = <<"dl_check", "idle">>]
    /\ loc' = [loc EXCEPT ![t] = [@ EXCEPT !.line = LineTag(site), !.file = site.file,
                                          !.s = msg, !.arg = LineTag(site)]]
    /\ UNCHANGED <<DEBUG, LEVELS, lockDEBUG, lockLEVELS, stderr, scopes, labels, counts>>

\* debug_dbg!(<expr>) at a call site, the expression's text being name
CallDebugDbg(t, site, name, value) ==
    /\ pc[t] = "idle"
    /\ Begin(t, "debug_dbg", LineTag(site), site.file, name, FALSE)
    /\ pc' = [pc EXCEPT ![t] = "sl_lock"]
    /\ rets' = [rets EXCEPT ![t] = <<"dd_check", "idle">>]
    /\ loc' = [loc EXCEPT ![t] = [@ EXCEPT !.line = LineTag(site), !.file = site.file,
                                          !.name = name, !.s = PrettyDebug(value),
                                          !.arg = LineTag(site)]]
    /\ UNCHANGED <<DEBUG, LEVELS, lockDEBUG, lockLEVELS, stderr, scopes, labels, counts>>

\* one step of a started operation
Step(t) ==
    \/ should_log(t)
    \/ set_debug(t)
    \/ get_level(t)
    \/ inner_println(t)
    \/ indent(t)
    \/ outdent(t)
    \/ group(t)
    \/ prepend_indent(t)
    \/ debug_log(t)
    \/ dbg(t)
    \/ debug_dbg(t)

(***************************************************************************)
(* Inputs.                                                                 *)
(***************************************************************************)
LabelA == <<"A">>
LabelB == <<"B">>
MsgX == <<"x">>
MsgXY == <<"x", NL, "y">>
NameV == <<"v">>

\* the value of DEBUG at compile time, and the values given to set_debug
Filters == {<<>>, Star, Mod1}
InitFilters == {None} \cup {Some(f) : f \in Filters}

(***************************************************************************)
(* Spec: one thread, every kind of filter.                                 *)
(***************************************************************************)
Init == InitWith(InitFilters)

Next ==
    \E t \in Main :
        \/ \E s \in Filters : nops < MaxOps /\ CallSetDebug(t, s)
        \/ \E site \in {Site1, Site2} : nops < MaxOps /\ CallGroup(t, site, LabelA)
        \/ nops < MaxOps /\ ExitScope(t)
        \/ \E site \in {Site1, Site2}, msg \in {MsgX, MsgXY} :
               nops < MaxOps /\ CallDebugLog(t, site, msg)
        \/ \E site \in {Site1, Site2}, v \in {IntValue(7), VecValue(<<0>>)} :
               nops < MaxOps /\ CallDebugDbg(t, site, NameV, v)
        \/ Step(t)

Spec == Init /\ [][Next]_vars

(***************************************************************************)
(* SpecStar: one thread, the filter is "*" throughout, two labels,         *)
(* single-line messages and values.                                        *)
(***************************************************************************)
InitStar == InitWith({Some(Star)})

NextStar ==
    \E t \in Main :
        \/ nops < MaxOpsStar /\ CallSetDebug(t, Star)
        \/ \E label \in {LabelA, LabelB} :
               nops < MaxOpsStar /\ CallGroup(t, Site1, label)
        \/ nops < MaxOpsStar /\ ExitScope(t)
        \/ nops < MaxOpsStar /\ CallDebugLog(t, Site1, MsgX)
        \/ nops < MaxOpsStar /\ CallDebugDbg(t, Site1, NameV, IntValue(7))
        \/ Step(t)

SpecStar == InitStar /\ [][NextStar]_vars

(***************************************************************************)
(* SpecMT: two threads, each opening and closing its own scopes in nested  *)
(* order, the filter switched on and off by either.                        *)
(***************************************************************************)
InitMT == InitWith({Some(Star)})

NextMT ==
    \E t \in Threads :
        \/ \E s \in {<<>>, Star} : nops < MaxOpsMT /\ CallSetDebug(t, s)
        \/ nops < MaxOpsMT /\ CallGroup(t, Site1, LabelA)
        \/ nops < MaxOpsMT /\ ExitScope(t)
        \/ nops < MaxOpsMT /\ CallDebugLog(t, Site1, MsgX)
        \/ nops < MaxOpsMT /\ CallDebugDbg(t, Site1, NameV, IntValue(7))
        \/ Step(t)

SpecMT == InitMT /\ [][NextMT]_vars

(***************************************************************************)
(* What the properties below read off a state.                             *)
(***************************************************************************)
Last(q) == q[Len(q)]

\* the characters the latest operation of t has written
Written(t) == SubSeq(stderr, cur[t].out0 + 1, Len(stderr))

\* the complete lines of a text that is empty or ends with '\n'
Lines(text) ==
    IF text = <<>> THEN <<>>
    ELSE LET p == Split(text) IN SubSeq(p, 1, Len(p) - 1)

RECURSIVE LeadingSpaces(_)
LeadingSpaces(line) ==
    IF line = <<>> \/ Head(line) # " " THEN 0 ELSE 1 + LeadingSpaces(Tail(line))

\* the nesting depth a line is indented to
IndentOf(line) == LeadingSpaces(line) \div Len(IndentUnit)

\* the guards among a thread's open scopes that are Some(GroupGuard)
NumSome(sc) == Cardinality({k \in 1 .. Len(sc) : sc[k]})

\* the filter as section 4.1 of the specification states it
IsEnabled(F, L) ==
    CASE F = None -> FALSE
      [] F = Some(<<>>) -> FALSE
      [] F = Some(Star) -> TRUE
      [] OTHER -> Contains(L, F[1])

C2_DepthRestored ==
    \A t \in Main :
        pc[t] = "idle" =>
            /\ Len(LEVELS) = NumSome(scopes[t])
            /\ pops = pushes - NumSome(scopes[t])
            /\ emptyPops = 0
            /\ (cur[t].kind = "exit" /\ cur[t].guard) => pops = cur[t].pops0 + 1
            /\ scopes[t] = <<>> => LEVELS = <<>>

\* two nested groups were opened and both scopes have been left
C2_Witness ==
    /\ pc[1] = "idle"
    /\ scopes[1] = <<>>
    /\ pushes = 2
    /\ pops = 2
    /\ LEVELS = <<>>

(***************************************************************************)
(* C3: for every group! whose call-site check succeeds, at creation the    *)
(* level is incremented and exactly one opening line '<label> {' is        *)
(* written, and at scope exit the level is decremented and exactly one     *)
(* closing line '}' is written.                                            *)
(***************************************************************************)
C3_OneOpenOneCloseLine ==
    \A t \in Main :
        pc[t] = "idle" =>
            /\ (cur[t].kind = "group" /\ Last(scopes[t])) =>
                   /\ Len(LEVELS) = Len(cur[t].levels0) + 1
                   /\ Written(t) = Repeat(IndentUnit, Len(cur[t].levels0))
                                   \o cur[t].name \o <<" ", "{", NL>>
            /\ (cur[t].kind = "exit" /\ cur[t].guard) =>
                   /\ Len(LEVELS) = Len(cur[t].levels0) - 1
                   /\ Written(t) = Repeat(IndentUnit, Len(LEVELS)) \o <<"}", NL>>

C5_OutputIffTagMatches ==
    \A t \in Main :
        (/\ pc[t] = "idle"
         /\ cur[t].kind \in {"debug_log", "debug_dbg", "group"}
         /\ DEBUG # None
         /\ DEBUG[1] \notin {<<>>, Star})
        => (Written(t) # <<>> <=> Contains(cur[t].tag, DEBUG[1]))

C8_EmptyMatchesAll ==
    [][\A t \in Threads :
          (pc[t] = "sl_eval" /\ pc'[t] # "sl_eval" /\ DEBUG = Some(<<>>))
              => loc'[t].res = TRUE]_vars

(***************************************************************************)
(* C6: with filter "*" in one thread, every group open writes exactly the  *)
(* line '<indent><label> {', every single-line debug_log! exactly the line *)
(* '<indent>[<file>:<line>] <text>' and every close exactly the line       *)
(* '<indent>}', the indent being four spaces per level of depth at the     *)
(* moment of writing, and nothing else; opening "A", opening "B" inside    *)
(* it, logging "x" and closing both yields exactly five lines.             *)
(***************************************************************************)
FiveLines ==
    << <<"A", " ", "{">>,
       IndentUnit \o <<"B", " ", "{">>,
       IndentUnit \o IndentUnit \o <<"[">> \o LineTag(Site1) \o <<"]", " ", "x">>,
       IndentUnit \o <<"}">>,
       <<"}">> >>

C6_ExactLines ==
    \A t \in Main :
        pc[t] = "idle" =>
            /\ cur[t].kind = "group" =>
                   Written(t) = Repeat(IndentUnit, Len(cur[t].levels0))
                                \o cur[t].name \o <<" ", "{", NL>>
            /\ cur[t].kind = "debug_log" =>
                   Written(t) = Repeat(IndentUnit, Len(LEVELS)) \o <<"[">>
                                \o cur[t].tag \o <<"]", " ">> \o cur[t].name \o <<NL>>
            /\ (cur[t].kind = "exit" /\ cur[t].guard) =>
                   Written(t) = Repeat(IndentUnit, Len(LEVELS)) \o <<"}", NL>>
            /\ (/\ nops = 5
                /\ pushes = 2
                /\ pops = 2
                /\ Len(Lines(stderr)) >= 3
                /\ SubSeq(Lines(stderr), 1, 3) = SubSeq(FiveLines, 1, 3))
               => Lines(stderr) = FiveLines

(***************************************************************************)
(* C10: in one thread with a permitting filter, a group's open line is     *)
(* indented by the depth before its push and its close line by the depth   *)
(* after its pop, so both carry the same indentation, and every line       *)
(* written between them is indented at least one level deeper.             *)
(***************************************************************************)
IsOpenLine(line) ==
    Len(line) >= 2 /\ SubSeq(line, Len(line) - 1, Len(line)) = <<" ", "{">>

IsCloseLine(line) ==
    line = Repeat(IndentUnit, IndentOf(line)) \o <<"}">>

\* line j closes the group that line i opens
Matches(lines, i, j) ==
    /\ i < j
    /\ IsOpenLine(lines[i])
    /\ IsCloseLine(lines[j])
    /\ IndentOf(lines[j]) = IndentOf(lines[i])
    /\ \A k \in (i + 1) .. (j - 1) :
           ~(IsCloseLine(lines[k]) /\ IndentOf(lines[k]) = IndentOf(lines[i]))

C10_BracesAlign ==
    \A t \in Main :
        pc[t] = "idle" =>
            LET lines == Lines(stderr) IN
            /\ cur[t].kind = "group" =>
                   /\ Len(Lines(Written(t))) = 1
                   /\ IsOpenLine(Last(lines))
                   /\ IndentOf(Last(lines)) = Len(cur[t].levels0)
            /\ (cur[t].kind = "exit" /\ cur[t].guard) =>
                   /\ Len(Lines(Written(t))) = 1
                   /\ IsCloseLine(Last(lines))
                   /\ IndentOf(Last(lines)) = Len(LEVELS)
                   /\ \E i \in 1 .. (Len(lines) - 1) : Matches(lines, i, Len(lines))
            /\ \A i, j \in 1 .. Len(lines) :
                   Matches(lines, i, j) =>
                       \A k \in (i + 1) .. (j - 1) :
                           IndentOf(lines[k]) >= IndentOf(lines[i]) + 1

(***************************************************************************)
(* C9: under every interleaving of threads that each open and close        *)
(* groups in nested order, the shared depth is never negative, no pop      *)
(* runs on an empty stack, the depth is the number of completed pushes     *)
(* minus the number of completed pops, and once every thread has left all  *)
(* its scopes the depth is its initial value, 0.                           *)
(***************************************************************************)
C9_SharedDepth ==
    /\ Len(LEVELS) >= 0
    /\ emptyPops = 0
    /\ \A t \in Threads : pc[t] = "out_pop" => LEVELS # <<>>
    /\ Len(LEVELS) = pushes - pops
    /\ (\A t \in Threads : pc[t] = "idle" /\ scopes[t] = <<>>) => Len(LEVELS) = 0

\* both threads have opened a group while the other's was open, and both
\* have left their scopes
C9_Witness ==
    /\ \A t \in Threads :
           /\ pc[t] = "idle"
           /\ scopes[t] = <<>>
           /\ cur[t].kind = "exit"
           /\ cur[t].guard
           /\ Len(cur[t].levels0) = 2
    /\ pushes = 2
    /\ pops = 2
    /\ LEVELS = <<>>

(***************************************************************************)
(* C11: at depth d, the text dbg renders for a value whose representation  *)
(* has N lines, and what reaches the error stream when it is written, is   *)
(* exactly N lines with no blank line after them: line 1 is d indent       *)
(* units, '[<location>] <expression-text> = ' and the first line of the    *)
(* representation, and each of the lines 2..N is the corresponding line    *)
(* of the representation after exactly d indent units.                     *)
(***************************************************************************)
\* text, a sequence of '\n'-terminated lines, is the dump of the
\* representation repr under the given tag and name at depth d
IsDumpOf(text, repr, tag, name, d) ==
    LET out == Lines(text)
        inp == Split(repr)
    IN  /\ text # <<>>
        /\ Last(text) = NL
        /\ Len(out) = Len(inp)
        /\ out[1] = Repeat(IndentUnit, d) \o <<"[">> \o tag \o <<"]", " ">>
                    \o name \o <<" ", "=", " ">> \o inp[1]
        /\ \A k \in 2 .. Len(inp) : out[k] = Repeat(IndentUnit, d) \o inp[k]

C11_DumpLines ==
    [][\A t \in Main :
          /\ (pc[t] = "ip" /\ cur[t].kind = "debug_dbg") =>
                 IsDumpOf(loc[t].text \o <<NL>>, loc[t].s, cur[t].tag, cur[t].name,
                          Len(LEVELS))
          /\ (/\ pc[t] = "ip_check"
              /\ pc'[t] # "ip_check"
              /\ cur[t].kind = "debug_dbg"
              /\ loc[t].res) =>
                 IsDumpOf(SubSeq(stderr', Len(stderr) + 1, Len(stderr')), loc[t].s,
                          cur[t].tag, cur[t].name, Len(LEVELS))]_vars

\* a three-line value has been dumped inside a group, at depth 1
C11_Witness ==
    /\ pc[1] = "idle"
    /\ cur[1].kind = "debug_dbg"
    /\ Len(LEVELS) = 1
    /\ Len(Lines(Written(1))) = 3
    /\ Lines(Written(1))[2] = IndentUnit \o IndentUnit \o <<"0", ",">>

(***************************************************************************)
(* SpecRaw: one thread that, besides using the macros, calls the public    *)
(* function outdent directly (as does dropping a GroupGuard that the       *)
(* caller constructed itself), with no group open or with some.            *)
(***************************************************************************)
\* debug_log::outdent() called by the host program
CallOutdent(t) ==
    /\ pc[t] = "idle"
    /\ Begin(t, "outdent", <<>>, <<>>, <<>>, FALSE)
    /\ Call(t, "outdent", "idle", loc[t])
    /\ UNCHANGED <<DEBUG, LEVELS, lockDEBUG, lockLEVELS, stderr, scopes, labels, counts>>

InitRaw == InitWith({None, Some(Star)})

NextRaw ==
    \E t \in Main :
        \/ nops < MaxOpsRaw /\ CallSetDebug(t, Star)
        \/ nops < MaxOpsRaw /\ CallGroup(t, Site1, LabelA)
        \/ nops < MaxOpsRaw /\ ExitScope(t)
        \/ nops < MaxOpsRaw /\ CallDebugLog(t, Site1, MsgX)
        \/ nops < MaxOpsRaw /\ CallDebugDbg(t, Site1, NameV, IntValue(7))
        \/ nops < MaxOpsRaw /\ CallOutdent(t)
        \/ Step(t)

SpecRaw == InitRaw /\ [][NextRaw]_vars

(***************************************************************************)
(* C12: calling outdent when the nesting depth is zero is a no-op: the     *)
(* depth stays zero, the nesting stack is unchanged and no output line is  *)
(* produced.                                                               *)
(***************************************************************************)
C12_OutdentAtZeroNoOp ==
    \A t \in Main :
        (pc[t] = "idle" /\ cur[t].kind = "outdent" /\ cur[t].levels0 = <<>>) =>
            /\ LEVELS = <<>>
            /\ Written(t) = <<>>

(***************************************************************************)
(* C13: the nesting stack is changed only by the push of indent and the    *)
(* pop of outdent, that is only by opening and closing a group: no step    *)
(* of set_debug, debug_log! or debug_dbg!, and no step of should_log or    *)
(* get_level inside any operation, changes it; the filter value is         *)
(* changed only by the store of set_debug.                                 *)
(***************************************************************************)
C13_Frame ==
    [][/\ LEVELS' # LEVELS =>
              \E t \in Threads :
                  /\ pc[t] \in {"in_push", "out_pop"}
                  /\ pc'[t] # pc[t]
                  /\ cur[t].kind \in {"group", "exit"}
       /\ DEBUG' # DEBUG =>
              \E t \in Threads :
                  /\ pc[t] = "sd_store"
                  /\ pc'[t] # pc[t]
                  /\ cur[t].kind = "set_debug"
       /\ \A t \in Main :
              (pc[t] # "idle" /\ cur[t].kind \in {"set_debug", "debug_log", "debug_dbg"})
                  => LEVELS' = LEVELS
       /\ \A t \in Main :
              (pc[t] # "idle" /\ cur[t].kind \in {"group", "exit", "debug_log", "debug_dbg"})
                  => DEBUG' = DEBUG
       /\ \A t \in Main :
              pc[t] \in {"sl_lock", "sl_eval", "gl_lock", "gl_len"}
                  => (LEVELS' = LEVELS /\ DEBUG' = DEBUG)]_vars

\* three operations have run, the first opening group "A" and the last dumping
\* a value inside it: the stack is what the group left
C13_Witness ==
    /\ pc[1] = "idle"
    /\ cur[1].kind = "debug_dbg"
    /\ Written(1) # <<>>
    /\ LEVELS = <<LabelA>>
    /\ nops = 3
    /\ cur[1].debug0 = Some(Star)
    /\ scopes[1] = <<TRUE>>

(***************************************************************************)
(* SpecRelease: the build without debug assertions, where mod debug is     *)
(* the second definition: set_debug has an empty body and the three        *)
(* macros expand to nothing.  There are no statics; the variables of the   *)
(* debug build keep their initial values, and group! binds no guard.       *)
(***************************************************************************)
program == <<DEBUG, LEVELS, lockDEBUG, lockLEVELS, stderr, pc, rets, loc, scopes,
             labels, counts>>

\* the filter is stored although the build has no debug assertions
release_set_debugStoring(t, s) ==
    /\ pc[t] = "idle"
    /\ Begin(t, "set_debug", <<>>, <<>>, s, FALSE)
    /\ DEBUG' = Some(s)
    /\ UNCHANGED <<LEVELS, lockDEBUG, lockLEVELS, stderr, pc, rets, loc, scopes,
                   labels, counts>>

\* pub fn set_debug(s: &str) {}
release_set_debug(t, s) ==
    /\ pc[t] = "idle"
    /\ Begin(t, "set_debug", <<>>, <<>>, s, FALSE)
    /\ UNCHANGED program

\* macro_rules! group { ($($arg:tt)*) => {}; }
release_group(t, site, label) ==
    /\ pc[t] = "idle"
    /\ Begin(t, "group", LineTag(site), site.file, label, FALSE)
    /\ UNCHANGED program

\* macro_rules! debug_log { ($($arg:tt)*) => {{}}; }
release_debug_log(t, site, msg) ==
    /\ pc[t] = "idle"
    /\ Begin(t, "debug_log", LineTag(site), site.file, msg, FALSE)
    /\ UNCHANGED program

\* macro_rules! debug_dbg { ($($val:expr),+ $(,)?) => {}; }
release_debug_dbg(t, site, name, value) ==
    /\ pc[t] = "idle"
    /\ Begin(t, "debug_dbg", LineTag(site), site.file, name, FALSE)
    /\ UNCHANGED program

InitRelease == InitWith({None})

NextRelease ==
    \E t \in Threads :
        \/ \E s \in Filters : nops < MaxOpsRelease /\ release_set_debug(t, s)
        \/ \E site \in {Site1, Site2}, label \in {LabelA, LabelB} :
               nops < MaxOpsRelease /\ release_group(t, site, label)
        \/ \E site \in {Site1, Site2}, msg \in {MsgX, MsgXY} :
               nops < MaxOpsRelease /\ release_debug_log(t, site, msg)
        \/ \E site \in {Site1, Site2}, v \in {IntValue(7), VecValue(<<0>>)} :
               nops < MaxOpsRelease /\ release_debug_dbg(t, site, NameV, v)

SpecRelease == InitRelease /\ [][NextRelease]_vars

(***************************************************************************)
(* C14: in the build without debug assertions, after any sequence of       *)
(* set_debug, group!, debug_log! and debug_dbg! calls with any filter      *)
(* value, nothing has been written, no filter value is stored, no level    *)
(* is on any stack, no guard is bound and no lock is held.                 *)
(***************************************************************************)
C14_ReleaseNoOp ==
    /\ stderr = <<>>
    /\ DEBUG = None
    /\ LEVELS = <<>>
    /\ lockDEBUG = 0
    /\ lockLEVELS = 0
    /\ pushes = 0
    /\ pops = 0
    /\ \A t \in Threads : pc[t] = "idle" /\ scopes[t] = <<>> /\ loc[t] = Loc0

\* three calls have returned, the latest of thread 1 a debug_log! and the
\* latest of thread 2 a group!
C14_Witness ==
    /\ nops = 3
    /\ cur[1].kind = "debug_log"
    /\ cur[2].kind = "group"
    /\ cur[2].tag = LineTag(Site1)

(***************************************************************************)
(* SpecDump: two threads with the filter "*", one of the arguments of      *)
(* debug_dbg! a vector whose pretty form has three lines.                  *)
(***************************************************************************)
InitDump == InitWith({Some(Star)})

NextDump ==
    \E t \in Threads :
        \/ nops < MaxOpsDump /\ CallSetDebug(t, Star)
        \/ nops < MaxOpsDump /\ CallGroup(t, Site1, LabelA)
        \/ nops < MaxOpsDump /\ ExitScope(t)
        \/ nops < MaxOpsDump /\ CallDebugLog(t, Site1, MsgX)
        \/ nops < MaxOpsDump /\ CallDebugDbg(t, Site1, NameV, VecValue(<<0>>))
        \/ Step(t)

SpecDump == InitDump /\ [][NextDump]_vars

(***************************************************************************)
(* C15: when dbg hands the text of a dump to inner_println!, there is one  *)
(* depth d such that the prefix line and every continuation line of the    *)
(* dump are indented by d units, whatever the other thread did to the      *)
(* stack while the dump was rendered.                                      *)
(***************************************************************************)
C15_OneDepthPerDump ==
    \A t \in Threads :
        (pc[t] = "ip" /\ cur[t].kind = "debug_dbg") =>
            \E d \in 0 .. MaxOpsDump :
                IsDumpOf(loc[t].text \o <<NL>>, loc[t].s, cur[t].tag, cur[t].name, d)

(***************************************************************************)
(* SpecFair: two threads, every thread that can take a step eventually     *)
(* takes one.  A thread blocked in lock() cannot take a step.              *)
(***************************************************************************)
NextFair ==
    \E t \in Threads :
        \/ \E s \in {<<>>, Star} : nops < MaxOpsFair /\ CallSetDebug(t, s)
        \/ nops < MaxOpsFair /\ CallGroup(t, Site1, LabelA)
        \/ nops < MaxOpsFair /\ ExitScope(t)
        \/ nops < MaxOpsFair /\ CallDebugLog(t, Site1, MsgX)
        \/ nops < MaxOpsFair /\ CallDebugDbg(t, Site1, NameV, IntValue(7))
        \/ Step(t)

SpecFair == InitMT /\ [][NextFair]_vars /\ \A t \in Threads : WF_vars(Step(t))

\* the places where a thread calls DEBUG.lock()
WaitsDEBUG == {"sl_lock", "sd_lock"}

\* the places where a thread calls LEVELS.lock()
WaitsLEVELS == {"gl_lock", "in_push_lock", "outdent"}

(***************************************************************************)
(* C16: a thread about to lock one of the two mutexes holds neither of     *)
(* them, and no thread ever holds both; whenever an operation is under     *)
(* way some thread can take a step; and with fair scheduling every         *)
(* operation that has started returns.                                     *)
(***************************************************************************)
C16_NoHoldAndWait ==
    /\ [](\A t \in Threads :
            /\ pc[t] \in WaitsDEBUG \cup WaitsLEVELS => (lockDEBUG # t /\ lockLEVELS # t)
            /\ ~(lockDEBUG = t /\ lockLEVELS = t))
    /\ []((\E t \in Threads : pc[t] # "idle") => (\E t \in Threads : ENABLED Step(t)))
    /\ \A t \in Threads : (pc[t] # "idle") ~> (pc[t] = "idle")

\* thread 1 waits for LEVELS, which thread 2 holds, inside an operation that
\* started while thread 2's was under way
C16_Witness ==
    /\ pc[1] \in WaitsLEVELS
    /\ lockLEVELS = 2
    /\ ~ENABLED Step(1)
    /\ nops = 2

\* the labels of the scopes that hold a GroupGuard, outermost first
RECURSIVE OpenLabels(_, _)
OpenLabels(sc, lb) ==
    IF sc = <<>> THEN <<>>
    ELSE (IF Head(sc) THEN <<Head(lb)>> ELSE <<>>) \o OpenLabels(Tail(sc), Tail(lb))

(***************************************************************************)
(* C17: in one thread, whenever no operation is running, the label stack   *)
(* is the sequence of the labels of the groups that are open, outermost    *)
(* first; a group that has just been opened has put its label at the end   *)
(* of the stack as it was, and a group that has just been closed has taken *)
(* the last label away, which was its own.                                 *)
(***************************************************************************)
C17_StackIsOpenLabels ==
    \A t \in Main :
        pc[t] = "idle" =>
            /\ LEVELS = OpenLabels(scopes[t], labels[t])
            /\ (cur[t].kind = "group" /\ Last(scopes[t])) =>
                   LEVELS = Append(cur[t].levels0, cur[t].name)
            /\ (cur[t].kind = "exit" /\ cur[t].guard) =>
                   /\ cur[t].levels0 # <<>>
                   /\ cur[t].levels0 = Append(LEVELS, cur[t].name)

\* group A and group B inside it were opened, and B has been closed
C17_Witness ==
    /\ pc[1] = "idle"
    /\ cur[1].kind = "exit"
    /\ cur[1].levels0 = <<LabelA, LabelB>>
    /\ LEVELS = <<LabelA>>

====
